---------------------------- MODULE Spec2Model ----------------------------
(***************************************************************************)
(* Model of app.py: the resolution table loader (load_data), its two       *)
(* global indexes (RESOLUTION_META, REVERSE_LINKS), the identifier list    *)
(* parser (clean_id_list), the ministry classifier (get_ministry_code)     *)
(* and the single-record lookup (page_view / resolve_links).               *)
(*                                                                         *)
(* Python strings are sequences of one-character strings, so that upper(), *)
(* lower(), strip(), re.split and the `in` substring test are computed     *)
(* character by character.  A spreadsheet cell is a string, or NaN (an     *)
(* empty cell), or Absent (the column is not in the file).                 *)
(*                                                                         *)
(* Line 123 binds DF to the result of load_data.  The model lets that      *)
(* statement run again, a reload, with the data folder changed or not in   *)
(* between, and lets page_view requests be served between the steps of a   *)
(* reload.  The routes index and book_overview, and the columns that only  *)
(* they read (Full_Text, Chapter_Name), are left out.                      *)
(***************************************************************************)
EXTENDS Integers, Sequences, FiniteSets, TLC

VARIABLES
    source,           \* the content of the data folder
    DF,               \* global DF: the served table
    RESOLUTION_META,  \* global RESOLUTION_META: id -> {year, date, title}
    REVERSE_LINKS,    \* global REVERSE_LINKS: target id -> list of links
    pc,               \* position of the running load_data ("idle": none)
    df,               \* load_data's local table
    idx,              \* load_data's position in df.iterrows()
    old,              \* the globals as they were when load_data was entered
    loaded,           \* the source the last load_data read
    view,             \* the response of the request last served
    call              \* argument and result of a pure function under test

vars == <<source, DF, RESOLUTION_META, REVERSE_LINKS, pc, df, idx, old,
          loaded, view, call>>

---------------------------------------------------------------------------
(* Bounds *)

\* longest raw identifier-list cell handed to clean_id_list
MaxLen == 4
\* most rows in a source file
MaxRows == 2

---------------------------------------------------------------------------
(* Strings *)

LowerCase == <<"a","b","c","d","e","f","g","h","i","j","k","l","m",
               "n","o","p","q","r","s","t","u","v","w","x","y","z">>
UpperCase == <<"A","B","C","D","E","F","G","H","I","J","K","L","M",
               "N","O","P","Q","R","S","T","U","V","W","X","Y","Z">>

\* the value of an empty cell (float nan) and of a column the file lacks
NaN == <<"NaN">>
Absent == <<"None">>

isna(v) == v = NaN \/ v = Absent

\* str(v)
str(v) ==
    IF v = NaN THEN <<"n","a","n">>
    ELSE IF v = Absent THEN <<"N","o","n","e">>
    ELSE v

UpperChar(c) ==
    IF \E i \in 1..26 : LowerCase[i] = c
    THEN UpperCase[CHOOSE i \in 1..26 : LowerCase[i] = c]
    ELSE c

LowerChar(c) ==
    IF \E i \in 1..26 : UpperCase[i] = c
    THEN LowerCase[CHOOSE i \in 1..26 : UpperCase[i] = c]
    ELSE c

upper(s) == [i \in 1..Len(s) |-> UpperChar(s[i])]
lower(s) == [i \in 1..Len(s) |-> LowerChar(s[i])]

IsSpace(c) == c \in {" ", "\t", "\n", "\r"}

RECURSIVE lstrip(_)
lstrip(s) ==
    IF s # <<>> /\ IsSpace(Head(s)) THEN lstrip(Tail(s)) ELSE s

RECURSIVE rstrip(_)
rstrip(s) ==
    IF s # <<>> /\ IsSpace(s[Len(s)])
    THEN rstrip(SubSeq(s, 1, Len(s) - 1))
    ELSE s

strip(s) == rstrip(lstrip(s))

\* kw in text
Contains(text, kw) ==
    \E i \in 0..(Len(text) - Len(kw)) :
        \A j \in 1..Len(kw) : text[i + j] = kw[j]

\* re.split(r'[,;]', s): the pieces between the delimiters, empty ones kept
RECURSIVE re_split(_, _)
re_split(s, piece) ==
    IF s = <<>> THEN <<piece>>
    ELSE IF Head(s) \in {",", ";"}
         THEN <<piece>> \o re_split(Tail(s), <<>>)
         ELSE re_split(Tail(s), Append(piece, Head(s)))

\* str(n) of a natural number
Digit(d) == <<"0","1","2","3","4","5","6","7","8","9">>[d + 1]
RECURSIVE Digits(_)
Digits(n) ==
    IF n < 10 THEN <<Digit(n)>>
    ELSE Append(Digits(n \div 10), Digit(n % 10))

---------------------------------------------------------------------------
(* clean_id_list *)

RECURSIVE StripAll(_)
StripAll(ps) ==
    IF ps = <<>> THEN <<>>
    ELSE <<strip(Head(ps))>> \o StripAll(Tail(ps))

RECURSIVE NonEmpty(_)
NonEmpty(ps) ==
    IF ps = <<>> THEN <<>>
    ELSE IF strip(Head(ps)) # <<>>
         THEN <<Head(ps)>> \o NonEmpty(Tail(ps))
         ELSE NonEmpty(Tail(ps))

clean_id_list_nostrip(id_str) ==
    IF isna(id_str) \/ strip(str(id_str)) = <<>> THEN <<>>
    ELSE NonEmpty(re_split(str(id_str), <<>>))

clean_id_list(id_str) ==
    IF isna(id_str) \/ strip(str(id_str)) = <<>> THEN <<>>
    ELSE StripAll(NonEmpty(re_split(str(id_str), <<>>)))

---------------------------------------------------------------------------
(* Ministries and categories *)

ADM == <<"A","D","M">>
FIN == <<"F","I","N">>
GUR == <<"G","U","R">>
ZON == <<"Z","O","N">>
EDU == <<"E","D","U">>
LAW == <<"L","A","W">>

\* the keys of CATEGORY_MAP
CATEGORY_MAP == {ADM, FIN, GUR, ZON, EDU, LAW}

LEGAL == <<"L","E","G","A","L">>
BUDGET == <<"B","U","D","G","E","T">>
ACADEMIC == <<"A","C","A","D","E","M","I","C">>
INITIATION == <<"I","N","I","T","I","A","T","I","O","N">>

\* row.get(key, default)
get(row, key, default) ==
    IF row[key] = Absent THEN default ELSE row[key]

\* the f-string of get_ministry_code, upper-cased
ClassificationText(row, code) ==
    upper(code \o <<" ">> \o str(get(row, "Category", <<>>))
               \o <<" ">> \o str(get(row, "Resolution_ID", <<>>))
               \o <<" ">> \o str(get(row, "Title", <<>>)))

get_ministry_code_swapped(row) ==
    LET code == upper(str(get(row, "Section_Ministry", <<>>)))
        text == ClassificationText(row, code)
    IN  IF code \in CATEGORY_MAP THEN code
        ELSE IF Contains(text, FIN) \/ Contains(text, BUDGET) THEN FIN
        ELSE IF Contains(text, LAW) \/ Contains(text, LEGAL) THEN LAW
        ELSE IF Contains(text, EDU) \/ Contains(text, ACADEMIC) THEN EDU
        ELSE IF Contains(text, GUR) \/ Contains(text, INITIATION) THEN GUR
        ELSE IF Contains(text, ZON) THEN ZON
        ELSE ADM

get_ministry_code_nofallback(row) ==
    LET code == upper(str(get(row, "Section_Ministry", <<>>)))
        text == ClassificationText(row, code)
    IN  IF code \in CATEGORY_MAP THEN code
        ELSE IF Contains(text, LAW) \/ Contains(text, LEGAL) THEN LAW
        ELSE IF Contains(text, FIN) \/ Contains(text, BUDGET) THEN FIN
        ELSE IF Contains(text, EDU) \/ Contains(text, ACADEMIC) THEN EDU
        ELSE IF Contains(text, GUR) \/ Contains(text, INITIATION) THEN GUR
        ELSE IF Contains(text, ZON) THEN ZON
        ELSE code

get_ministry_code(row) ==
    LET code == upper(str(get(row, "Section_Ministry", <<>>)))
        text == ClassificationText(row, code)
    IN  IF code \in CATEGORY_MAP THEN code
        ELSE IF Contains(text, LAW) \/ Contains(text, LEGAL) THEN LAW
        ELSE IF Contains(text, FIN) \/ Contains(text, BUDGET) THEN FIN
        ELSE IF Contains(text, EDU) \/ Contains(text, ACADEMIC) THEN EDU
        ELSE IF Contains(text, GUR) \/ Contains(text, INITIATION) THEN GUR
        ELSE IF Contains(text, ZON) THEN ZON
        ELSE ADM

---------------------------------------------------------------------------
(* The source file and the table *)

Columns == {"Resolution_ID", "Year", "Title", "Status", "Section_Ministry",
            "Category", "Date_Passed", "Amends_IDs", "Repeals_IDs",
            "Superseded_By"}

\* os.path.exists(data_folder) is false, or the folder holds no table
Missing == [exists |-> FALSE, columns |-> {}, mixed_ids |-> FALSE,
            rows |-> <<>>]

\* pd.read_csv / pd.read_excel: a column the file lacks reads as Absent
read_table(src) ==
    [i \in 1..Len(src.rows) |->
        [c \in Columns |->
            IF c \in src.columns THEN src.rows[i][c] ELSE Absent]]

\* c in df.columns
HasColumn(t, c) == \A i \in 1..Len(t) : t[i][c] # Absent

IsDigit(c) == c \in {"0","1","2","3","4","5","6","7","8","9"}
DigitValue(c) == CHOOSE d \in 0..9 : Digit(d) = c

RECURSIVE ParseNat(_, _)
ParseNat(s, acc) ==
    IF s = <<>> THEN acc
    ELSE ParseNat(Tail(s), 10 * acc + DigitValue(Head(s)))

\* pd.to_numeric(v, errors='coerce'), then fillna(0).astype(int)
to_numeric_fillna(v) ==
    IF v # NaN /\ v # <<>> /\ \A i \in 1..Len(v) : IsDigit(v[i])
    THEN ParseNat(v, 0)
    ELSE 0

\* f"{int(y//10 * 10)}s"
Shelf(y) == Append(Digits((y \div 10) * 10), "s")

ACTIVE == <<"a","c","t","i","v","e">>

\* df['Status'].astype(str).str.lower() == 'active'
Is_Active(status) == lower(str(status)) = ACTIVE

\* lines 61-81: the Year, Chapter_Code, Shelf and Is_Active columns
Classify(t) ==
    [i \in 1..Len(t) |->
        LET y == to_numeric_fillna(t[i]["Year"])
        IN  [c \in Columns \cup {"Chapter_Code", "Shelf", "Is_Active"} |->
                CASE c = "Year" -> y
                  [] c = "Chapter_Code" -> get_ministry_code(t[i])
                  [] c = "Shelf" -> Shelf(y)
                  [] c = "Is_Active" -> Is_Active(t[i]["Status"])
                  [] OTHER -> t[i][c]]]

\* the order of the characters the model's strings use
CodePoints == <<" ", ",", "-", "0","1","2","3","4","5","6","7","8","9", ";">>
              \o UpperCase \o LowerCase
ord(c) == CHOOSE i \in 1..Len(CodePoints) : CodePoints[i] = c

RECURSIVE StrLess(_, _)
StrLess(a, b) ==
    IF b = <<>> THEN FALSE
    ELSE IF a = <<>> THEN TRUE
    ELSE IF Head(a) # Head(b) THEN ord(Head(a)) < ord(Head(b))
    ELSE StrLess(Tail(a), Tail(b))

\* the key order of sort_values(['Year', 'Resolution_ID'])
RowLess(r, q) ==
    \/ r["Year"] < q["Year"]
    \/ r["Year"] = q["Year"] /\ StrLess(r["Resolution_ID"], q["Resolution_ID"])

RECURSIVE InsertRow(_, _)
InsertRow(r, sorted) ==
    IF sorted = <<>> THEN <<r>>
    ELSE IF RowLess(r, Head(sorted)) THEN <<r>> \o sorted
    ELSE <<Head(sorted)>> \o InsertRow(r, Tail(sorted))

\* df.sort_values(['Year', 'Resolution_ID']): stable
RECURSIVE sort_values(_)
sort_values(t) ==
    IF t = <<>> THEN <<>>
    ELSE InsertRow(t[Len(t)], sort_values(SubSeq(t, 1, Len(t) - 1)))

---------------------------------------------------------------------------
(* The indexes *)

\* an empty dict
EmptyDict == [k \in {} |-> <<>>]

\* d[k] = v
Put(d, k, v) ==
    [x \in DOMAIN d \cup {k} |-> IF x = k THEN v ELSE d[x]]

\* row.get('Date_Passed', row['Year'])
DateOf(row) ==
    IF row["Date_Passed"] = Absent
    THEN [is_year |-> TRUE, text |-> <<>>, year |-> row["Year"]]
    ELSE [is_year |-> FALSE, text |-> row["Date_Passed"], year |-> 0]

\* str(row.get('Date_Passed', row['Year']))
DateStr(row) ==
    IF row["Date_Passed"] = Absent
    THEN Digits(row["Year"])
    ELSE str(row["Date_Passed"])

\* lines 88-92
MetaEntry(row) ==
    [year |-> row["Year"], date |-> DateStr(row), title |-> row["Title"]]

\* lines 99-105 and 109-115, for each target in turn
RECURSIVE AppendLinks(_, _, _, _)
AppendLinks(links, targets, type, row) ==
    IF targets = <<>> THEN links
    ELSE LET target == Head(targets)
             entry == [type |-> type,
                       source_id |-> strip(str(row["Resolution_ID"])),
                       date |-> DateOf(row),
                       year |-> row["Year"]]
             before == IF target \in DOMAIN links THEN links[target]
                       ELSE <<>>
         IN  AppendLinks(Put(links, target, Append(before, entry)),
                         Tail(targets), type, row)

\* lines 98-115: the amendments of a row, then its repeals
IndexRow(links, row) ==
    AppendLinks(
        AppendLinks(links, clean_id_list(row["Amends_IDs"]),
                    "AMENDED BY", row),
        clean_id_list(row["Repeals_IDs"]), "REPEALED BY", row)

\* the year the string "Unknown" stands in for in a link
UnknownYear == -1
Unknown == <<"U","n","k","n","o","w","n">>

\* resolve_links
RECURSIVE ResolveIds(_, _, _)
ResolveIds(ids, rel_type, metadata) ==
    IF ids = <<>> THEN <<>>
    ELSE LET rid == Head(ids)
             known == rid \in DOMAIN metadata
         IN  <<[id |-> rid,
                type |-> rel_type,
                year |-> IF known THEN metadata[rid].year ELSE UnknownYear,
                date |-> IF known THEN metadata[rid].date ELSE Unknown]>>
             \o ResolveIds(Tail(ids), rel_type, metadata)

resolve_links(id_list_str, rel_type, metadata) ==
    ResolveIds(clean_id_list(id_list_str), rel_type, metadata)

\* DF[DF['Resolution_ID'] == res_id]
RECURSIVE Matching(_, _)
Matching(t, res_id) ==
    IF t = <<>> THEN <<>>
    ELSE IF Head(t)["Resolution_ID"] = res_id
         THEN <<Head(t)>> \o Matching(Tail(t), res_id)
         ELSE Matching(Tail(t), res_id)

BasePage == [page |-> "base.html"]

\* page_view: the template and the context it is rendered with
page_view(res_id, table, metadata, links) ==
    IF table = <<>> THEN BasePage
    ELSE IF Matching(table, res_id) = <<>> THEN BasePage
    ELSE LET res == Matching(table, res_id)[1]
             forward == resolve_links(res["Amends_IDs"], "AMENDS", metadata)
                        \o resolve_links(res["Repeals_IDs"], "REPEALS",
                                         metadata)
             superseded == resolve_links(res["Superseded_By"],
                                         "SUPERSEDED BY", metadata)
             backward == IF res_id \in DOMAIN links
                         THEN superseded \o links[res_id]
                         ELSE superseded
         IN  [page |-> "resolution.html", res |-> res,
              forward |-> forward, backward |-> backward]

---------------------------------------------------------------------------
(* Source files *)

Row1 ==
    [Resolution_ID |-> <<"A">>,
     Year |-> <<"1","9","7","4">>,
     Title |-> <<"B","u","d","g","e","t">>,
     Status |-> <<"A","c","t","i","v","e">>,
     Section_Ministry |-> NaN,
     Category |-> NaN,
     Date_Passed |-> <<"1","9","7","4","-","0","3">>,
     Amends_IDs |-> NaN,
     Repeals_IDs |-> NaN,
     Superseded_By |-> <<"B">>]
Row2 ==
    [Resolution_ID |-> <<"B">>,
     Year |-> <<"1","9","8","0">>,
     Title |-> <<"L","a","w">>,
     Status |-> <<"a","c","t","i","v","e">>,
     Section_Ministry |-> NaN,
     Category |-> <<"G","e","n","e","r","a","l">>,
     Date_Passed |-> <<"1","9","8","0">>,
     Amends_IDs |-> <<"A",","," ","C">>,
     Repeals_IDs |-> NaN,
     Superseded_By |-> NaN]
Row3 ==
    [Resolution_ID |-> <<"C"," ">>,
     Year |-> <<"n","/","a">>,
     Title |-> NaN,
     Status |-> <<"R","e","p","e","a","l","e","d">>,
     Section_Ministry |-> <<"e","d","u">>,
     Category |-> NaN,
     Date_Passed |-> NaN,
     Amends_IDs |-> <<"A",";","B">>,
     Repeals_IDs |-> <<" ","A",",">>,
     Superseded_By |-> NaN]

Catalog == <<Row1, Row2, Row3>>

\* the row sequences of a file: up to MaxRows rows of the catalog, none twice
RowChoices ==
    UNION {{f \in [1..n -> 1..Len(Catalog)] :
                \A i, j \in 1..n : i # j => f[i] # f[j]} :
           n \in 1..MaxRows}

Files ==
    {[exists |-> TRUE, columns |-> Columns, mixed_ids |-> FALSE,
      rows |-> [i \in 1..Len(f) |-> Catalog[f[i]]]] : f \in RowChoices}

\* the ids a request asks for
LookupIds == {<<"A">>, <<"C">>, <<"C"," ">>}

---------------------------------------------------------------------------
(* State *)

\* no request has been served since the last step of load_data
NoView == [request |-> <<>>, response |-> [page |-> "none"]]
NoCall == [fn |-> "none"]

Snapshot ==
    [DF |-> DF, META |-> RESOLUTION_META, LINKS |-> REVERSE_LINKS,
     source |-> loaded]

Init ==
    /\ source \in Files \cup {Missing}
    /\ DF = <<>>
    /\ RESOLUTION_META = EmptyDict
    /\ REVERSE_LINKS = EmptyDict
    /\ pc = "idle"
    /\ df = <<>>
    /\ idx = 0
    /\ old = <<>>
    /\ loaded = <<>>
    /\ view = NoView
    /\ call = NoCall

---------------------------------------------------------------------------
(* load_data, one step at a time; DF = load_data() binds the result *)

\* return t, bound to the global DF by the caller
Return(t) ==
    /\ DF' = t
    /\ pc' = "idle"
    /\ df' = <<>>
    /\ idx' = 0

\* lines 45-47: the two globals are rebound to empty dicts
LoadEnter_KeepLinks ==
    /\ pc = "idle"
    /\ old' = <<Snapshot>>
    /\ RESOLUTION_META' = EmptyDict
    /\ pc' = "read"
    /\ view' = NoView
    /\ UNCHANGED <<source, DF, REVERSE_LINKS, df, idx, loaded, call>>

LoadEnter ==
    /\ pc = "idle"
    /\ old' = <<Snapshot>>
    /\ RESOLUTION_META' = EmptyDict
    /\ REVERSE_LINKS' = EmptyDict
    /\ pc' = "read"
    /\ view' = NoView
    /\ UNCHANGED <<source, DF, df, idx, loaded, call>>

\* lines 49-81: find and read the file, add the derived columns
LoadRead ==
    /\ pc = "read"
    /\ loaded' = <<source>>
    /\ view' = NoView
    /\ IF ~source.exists
       THEN Return(<<>>)
       ELSE LET t == read_table(source)
            IN  IF HasColumn(t, "Year") /\ HasColumn(t, "Status")
                THEN /\ df' = Classify(t)
                     /\ idx' = 1
                     /\ pc' = "index"
                     /\ DF' = DF
                ELSE Return(<<>>)
    /\ UNCHANGED <<source, RESOLUTION_META, REVERSE_LINKS, old, call>>

\* lines 84-115: one turn of the loop over df.iterrows()
LoadIndexRow ==
    /\ pc = "index"
    /\ idx <= Len(df)
    /\ view' = NoView
    /\ LET row == df[idx]
       IN  IF row["Resolution_ID"] = Absent \/ row["Title"] = Absent
           THEN /\ Return(<<>>)
                /\ UNCHANGED <<RESOLUTION_META, REVERSE_LINKS>>
           ELSE /\ RESOLUTION_META' =
                       Put(RESOLUTION_META,
                           strip(str(row["Resolution_ID"])), MetaEntry(row))
                /\ REVERSE_LINKS' = IndexRow(REVERSE_LINKS, row)
                /\ idx' = idx + 1
                /\ UNCHANGED <<DF, pc, df>>
    /\ UNCHANGED <<source, old, loaded, call>>

\* line 117, or lines 119-121 when the sort raises
LoadSort ==
    /\ pc = "index"
    /\ idx > Len(df)
    /\ view' = NoView
    /\ IF loaded[1].mixed_ids THEN Return(<<>>) ELSE Return(sort_values(df))
    /\ UNCHANGED <<source, RESOLUTION_META, REVERSE_LINKS, old, loaded, call>>

---------------------------------------------------------------------------
(* Requests *)

\* the routes are served once line 123 has bound DF
Serving ==
    /\ loaded # <<>>
    /\ IF pc = "idle" THEN TRUE ELSE old[1].source # <<>>

PageView(res_id) ==
    /\ Serving
    /\ view' = [request |-> res_id,
                response |-> page_view(res_id, DF, RESOLUTION_META,
                                       REVERSE_LINKS)]
    /\ UNCHANGED <<source, DF, RESOLUTION_META, REVERSE_LINKS, pc, df, idx,
                   old, loaded, call>>

---------------------------------------------------------------------------
(* The data folder changes between loads *)

SourceChanges(src) ==
    /\ pc = "idle"
    /\ src # source
    /\ source' = src
    /\ old' = <<>>
    /\ view' = NoView
    /\ UNCHANGED <<DF, RESOLUTION_META, REVERSE_LINKS, pc, df, idx, loaded,
                   call>>

\* another table is put in the folder
ReplaceSource == \E f \in Files : SourceChanges(f)

\* the folder, or the table in it, is removed
RemoveSource == source.exists /\ SourceChanges(Missing)

\* the table is saved without one of its columns
DropColumn ==
    /\ source.exists
    /\ source.columns = Columns
    /\ \E c \in {"Status", "Title"} :
          SourceChanges([source EXCEPT !.columns = Columns \ {c}])

\* the table is saved with numbers and text mixed in Resolution_ID
MixIds ==
    /\ source.exists
    /\ source.columns = Columns
    /\ ~source.mixed_ids
    /\ SourceChanges([source EXCEPT !.mixed_ids = TRUE])

Next ==
    \/ LoadEnter
    \/ LoadRead
    \/ LoadIndexRow
    \/ LoadSort
    \/ \E res_id \in LookupIds : PageView(res_id)
    \/ ReplaceSource
    \/ RemoveSource
    \/ DropColumn
    \/ MixIds

Spec == Init /\ [][Next]_vars

---------------------------------------------------------------------------
(* clean_id_list and get_ministry_code on their own: the function is      *)
(* applied once to an argument chosen from a bounded set                   *)

Quiet ==
    /\ source = Missing
    /\ DF = <<>>
    /\ RESOLUTION_META = EmptyDict
    /\ REVERSE_LINKS = EmptyDict
    /\ pc = "idle"
    /\ df = <<>>
    /\ idx = 0
    /\ old = <<>>
    /\ loaded = <<>>
    /\ view = NoView

IdChars == {"A", "B", " ", ",", ";"}

SampleCell ==
    <<" ","G","B","C","-","0","1"," ",","," ","G","B","C","-","0","2",";","G","B","C","-","0","3"," ">>

\* the raw values of an identifier-list cell
RawCells ==
    {NaN, Absent, SampleCell}
    \cup UNION {[1..n -> IdChars] : n \in 0..MaxLen}

InitParse ==
    /\ Quiet
    /\ call \in {[fn |-> "clean_id_list", arg |-> c, done |-> FALSE,
                  ret |-> <<>>] : c \in RawCells}

CallCleanIdList ==
    /\ call.fn = "clean_id_list"
    /\ ~call.done
    /\ call' = [call EXCEPT !.done = TRUE, !.ret = clean_id_list(call.arg)]
    /\ UNCHANGED <<source, DF, RESOLUTION_META, REVERSE_LINKS, pc, df, idx,
                   old, loaded, view>>

SpecParse == InitParse /\ [][CallCleanIdList]_vars

Ministries ==
    {Absent,
     NaN,
     <<"F","I","N">>,
     <<"f","i","n">>,
     <<"L","a","w">>,
     <<"G","U","R"," ">>,
     <<"T","e","m","p","l","e">>}
Categories ==
    {Absent,
     <<"B","u","d","g","e","t">>,
     <<"A","c","a","d","e","m","i","c">>,
     <<"G","e","n","e","r","a","l">>}
Ids ==
    {<<"G","B","C","-","0","1">>,
     <<"Z","O","N","-","7">>,
     <<"L","A","W","-","2">>}
Titles ==
    {NaN,
     <<"L","e","g","a","l"," ","b","u","d","g","e","t">>,
     <<"I","n","i","t","i","a","t","i","o","n">>,
     <<"F","i","n","a","l">>,
     <<"E","d","u","c","a","t","i","o","n"," ","z","o","n","e">>,
     <<"U","n","t","i","t","l","e","d">>}

InitClassify ==
    /\ Quiet
    /\ call \in {[fn |-> "get_ministry_code",
                  arg |-> [Section_Ministry |-> m, Category |-> c,
                           Resolution_ID |-> i, Title |-> t],
                  done |-> FALSE, ret |-> <<>>] :
                 m \in Ministries, c \in Categories, i \in Ids, t \in Titles}

CallGetMinistryCode ==
    /\ call.fn = "get_ministry_code"
    /\ ~call.done
    /\ call' = [call EXCEPT !.done = TRUE,
                            !.ret = get_ministry_code(call.arg)]
    /\ UNCHANGED <<source, DF, RESOLUTION_META, REVERSE_LINKS, pc, df, idx,
                   old, loaded, view>>

SpecClassify == InitClassify /\ [][CallGetMinistryCode]_vars

---------------------------------------------------------------------------
(* Properties of clean_id_list *)

Min(S) == CHOOSE x \in S : \A y \in S : x <= y
Max(S) == CHOOSE x \in S : \A y \in S : y <= x

\* the positions of the delimiters of s, and its two ends
Cuts(s) == {0, Len(s) + 1} \cup {i \in 1..Len(s) : s[i] \in {",", ";"}}

\* the piece of s that starts after the cut at p, without the white space
\* around it
PieceAfter(s, p) ==
    LET q == Min({c \in Cuts(s) : c > p})
        inside == {i \in (p + 1)..(q - 1) : ~IsSpace(s[i])}
    IN  IF inside = {} THEN <<>> ELSE SubSeq(s, Min(inside), Max(inside))

\* the non-empty pieces of s, from left to right
Pieces(s) ==
    LET starts == {p \in Cuts(s) \ {Len(s) + 1} : PieceAfter(s, p) # <<>>}
        nth(k) == CHOOSE p \in starts :
                      Cardinality({c \in starts : c <= p}) = k
    IN  [k \in 1..Cardinality(starts) |-> PieceAfter(s, nth(k))]

\* C9: clean_id_list returns the pieces of the value between its commas and
\* semicolons, each without the white space around it, the empty ones
\* dropped, in their order and with repetitions kept; a null, empty or
\* blank value gives the empty list.
C9_CleanIdListSplitsTrimsKeepsOrder ==
    (call.fn = "clean_id_list" /\ call.done) =>
        IF isna(call.arg) THEN call.ret = <<>>
        ELSE call.ret = Pieces(call.arg)

\* an id given twice, around a semicolon and a blank, is returned twice
C9_Witness ==
    /\ call.fn = "clean_id_list"
    /\ call.done
    /\ ~isna(call.arg)
    /\ \E i \in 1..Len(call.arg) : call.arg[i] = ";"
    /\ \E i \in 1..Len(call.arg) : call.arg[i] = " "
    /\ call.ret = << <<"A">>, <<"A">> >>

---------------------------------------------------------------------------
(* Properties of get_ministry_code *)

\* the keyword groups in their order of priority
KeywordGroups ==
    << [code |-> LAW, keywords |-> {LAW, LEGAL}],
       [code |-> FIN, keywords |-> {FIN, BUDGET}],
       [code |-> EDU, keywords |-> {EDU, ACADEMIC}],
       [code |-> GUR, keywords |-> {GUR, INITIATION}],
       [code |-> ZON, keywords |-> {ZON}] >>

\* the groups with a keyword in the text
Hits(text) ==
    {g \in 1..Len(KeywordGroups) :
        \E kw \in KeywordGroups[g].keywords : Contains(text, kw)}

FirstHit(text) ==
    IF Hits(text) = {} THEN ADM ELSE KeywordGroups[Min(Hits(text))].code

\* the explicit field of a record as the file gives it
Explicit(row) == str(get(row, "Section_Ministry", <<>>))

\* the text of a record that the keywords are looked for in
TextOf(row) == ClassificationText(row, upper(Explicit(row)))

Classified == call.fn = "get_ministry_code" /\ call.done

\* C5: the code of a record is one of the six codes, and it is ADM when the
\* explicit field is no code and no keyword occurs in the text.
C5_CodeInFixedSet ==
    Classified =>
        /\ call.ret \in {ADM, FIN, GUR, ZON, EDU, LAW}
        /\ (Explicit(call.arg) \notin CATEGORY_MAP
              /\ Hits(TextOf(call.arg)) = {}) => call.ret = ADM

\* a record with no code and no keyword falls back to ADM
C5_Witness ==
    /\ Classified
    /\ Explicit(call.arg) \notin CATEGORY_MAP
    /\ Hits(TextOf(call.arg)) = {}
    /\ call.ret = ADM

\* C6 as stated: a record whose explicit field is not verbatim a code gets
\* the code of the first group with a keyword in the text, and a record
\* whose explicit field is a code gets that code.
C6_CascadeUnlessVerbatimCode ==
    Classified =>
        IF Explicit(call.arg) \in CATEGORY_MAP
        THEN call.ret = Explicit(call.arg)
        ELSE call.ret = FirstHit(TextOf(call.arg))

\* C6 amended: a record whose explicit field, upper-cased, is a code gets
\* that code; every other record gets the code of the first group, in the
\* order LAW, FIN, EDU, GUR, ZON, with a keyword in the text.
C6_CascadeUnlessCodeIgnoringCase ==
    Classified =>
        IF upper(Explicit(call.arg)) \in CATEGORY_MAP
        THEN call.ret = upper(Explicit(call.arg))
        ELSE call.ret = FirstHit(TextOf(call.arg))

\* a text with a legal and a finance keyword is classified LAW
C6_Witness ==
    /\ Classified
    /\ upper(Explicit(call.arg)) \notin CATEGORY_MAP
    /\ {1, 2} \subseteq Hits(TextOf(call.arg))
    /\ call.ret = LAW

---------------------------------------------------------------------------
(* Properties of load_data *)

\* a load_data has returned and the folder has not changed since
Returned == pc = "idle" /\ old # <<>>

\* what the reload found in place, and the source that load had read
Before == old[1]

\* reading this source ends in `return pd.DataFrame()`
Fails(src) ==
    \/ ~src.exists
    \/ ~({"Year", "Status", "Resolution_ID", "Title"} \subseteq src.columns)
    \/ src.mixed_ids

\* the reload found the result of a load that had not failed
GoodBefore ==
    /\ Before.source # <<>>
    /\ ~Fails(Before.source[1])
    /\ Before.DF # <<>>

\* C1: a reload that fails leaves both maps as they were and does not
\* replace the table by an empty one.
C1_FailedReloadKeepsState ==
    (Returned /\ GoodBefore /\ Fails(loaded[1])) =>
        /\ RESOLUTION_META = Before.META
        /\ REVERSE_LINKS = Before.LINKS
        /\ DF # <<>>

\* C2: a request served at any point of a reload reads a table and two maps
\* that are all those the reload found or all those it leaves.
C2_ReaderSeesOneLoad ==
    (view.response.page # "none") =>
        \/ pc = "idle"
        \/ /\ DF = Before.DF
           /\ RESOLUTION_META = Before.META
           /\ REVERSE_LINKS = Before.LINKS

\* C4: a load of the source the load before it had read leaves the table
\* and both maps as that load left them, lists in the same order.
C4_ReloadIdempotent ==
    (Returned /\ Before.source = loaded) =>
        /\ DF = Before.DF
        /\ RESOLUTION_META = Before.META
        /\ REVERSE_LINKS = Before.LINKS

\* a table with reverse links has been loaded twice
C4_Witness ==
    /\ Returned
    /\ Before.source = loaded
    /\ DF # <<>>
    /\ \E t \in DOMAIN REVERSE_LINKS : Len(REVERSE_LINKS[t]) > 1

\* the id of a record of the table: the id of its row, trimmed
IdOf(r) == strip(str(r["Resolution_ID"]))

\* the rows of a table
Rows(t) == {t[i] : i \in 1..Len(t)}

\* a load_data that did not fail has returned, and no other is running
Loaded == pc = "idle" /\ loaded # <<>> /\ ~Fails(loaded[1])

\* a request has been served from the result of that load
Served == Loaded /\ view.response.page # "none"

\* the relation and the source of an entry that load_data put in
\* REVERSE_LINKS; no entry for a link that resolve_links made
RECURSIVE ReverseEntries(_)
ReverseEntries(trace) ==
    IF trace = <<>> THEN <<>>
    ELSE IF Head(trace).type \in {"AMENDED BY", "REPEALED BY"}
         THEN <<[type |-> Head(trace).type,
                 source_id |-> Head(trace).source_id]>>
              \o ReverseEntries(Tail(trace))
         ELSE ReverseEntries(Tail(trace))

\* the entries the rows of the file declare for the record B, row by row
RECURSIVE Declared(_, _)
Declared(rows, B) ==
    IF rows = <<>> THEN <<>>
    ELSE LET A == Head(rows)
             amends == [i \in {k \in 1..Len(clean_id_list(A["Amends_IDs"])) :
                                  clean_id_list(A["Amends_IDs"])[k] = B} |->
                           [type |-> "AMENDED BY", source_id |-> IdOf(A)]]
             repeals == [i \in {k \in 1..Len(clean_id_list(A["Repeals_IDs"])) :
                                   clean_id_list(A["Repeals_IDs"])[k] = B} |->
                            [type |-> "REPEALED BY", source_id |-> IdOf(A)]]
             seqOf(f) == [k \in 1..Cardinality(DOMAIN f) |->
                             f[CHOOSE i \in DOMAIN f :
                                 Cardinality({j \in DOMAIN f : j <= i}) = k]]
         IN  seqOf(amends) \o seqOf(repeals) \o Declared(Tail(rows), B)

\* a is b with some of its elements left out
RECURSIVE IsSubSeq(_, _)
IsSubSeq(a, b) ==
    IF a = <<>> THEN TRUE
    ELSE IF b = <<>> THEN FALSE
    ELSE IF Head(a) = Head(b) THEN IsSubSeq(Tail(a), Tail(b))
    ELSE IsSubSeq(a, Tail(b))

\* C3: the backward trace of the record a lookup returns holds, for every
\* row that amends or repeals that record, an entry with that row's id and
\* AMENDED BY or REPEALED BY, in the order of the rows.
C3_ReverseIndexRoundTrip ==
    (Served /\ view.response.page = "resolution.html") =>
        IsSubSeq(Declared(loaded[1].rows, IdOf(view.response.res)),
                 ReverseEntries(view.response.backward))

\* C7: a lookup returns a record whose trimmed id is the trimmed id asked
\* for whenever the table has one, and the base page, never a record,
\* when it has none.
C7_LookupMatchesTrimmedId ==
    Served =>
        IF \E r \in Rows(DF) : IdOf(r) = strip(view.request)
        THEN /\ view.response.page = "resolution.html"
             /\ IdOf(view.response.res) = strip(view.request)
        ELSE view.response = BasePage

\* a and b are the same but for the case of their letters
SameIgnoringCase(a, b) ==
    /\ Len(a) = Len(b)
    /\ \A i \in 1..Len(a) : UpperChar(a[i]) = UpperChar(b[i])

\* the source has every column load_data needs, but perhaps not Status
NeedsOnlyStatus(src) ==
    /\ src.exists
    /\ ~src.mixed_ids
    /\ Columns \ {"Status"} \subseteq src.columns

\* C8: a source without a Status column is loaded whole with every record
\* active; with the column, a record is active exactly when its status is
\* "active" in any case.
C8_MissingStatusDefaultsToActive ==
    (pc = "idle" /\ loaded # <<>> /\ NeedsOnlyStatus(loaded[1])) =>
        IF "Status" \notin loaded[1].columns
        THEN /\ Len(DF) = Len(loaded[1].rows)
             /\ \A r \in Rows(DF) : r["Is_Active"]
        ELSE \A r \in Rows(DF) :
                 r["Is_Active"] <=> SameIgnoringCase(str(r["Status"]), ACTIVE)

\* C10: when load_data has returned, the keys of RESOLUTION_META are the
\* trimmed ids of the table's records, every source_id in REVERSE_LINKS is
\* such a key, and both maps are empty when the table is.
C10_TableAndIndexesAgree ==
    (pc = "idle" /\ loaded # <<>>) =>
        /\ DOMAIN RESOLUTION_META = {IdOf(r) : r \in Rows(DF)}
        /\ \A t \in DOMAIN REVERSE_LINKS :
              \A k \in 1..Len(REVERSE_LINKS[t]) :
                 REVERSE_LINKS[t][k].source_id \in DOMAIN RESOLUTION_META
        /\ DF = <<>> => /\ RESOLUTION_META = EmptyDict
                        /\ REVERSE_LINKS = EmptyDict

=============================================================================
